---- MODULE Spec2Model ----
(***************************************************************************)
(* JSONToDocument (haystack/components/converters/json.py): one call of    *)
(* run() over a list of sources, modelled statement by statement.          *)
(*                                                                         *)
(* Python/JSON values are tagged records [t, v] so that values of          *)
(* different Python types can be compared.  A JSON object is the sequence  *)
(* of its <<key, value>> pairs in document order (json.loads keeps the     *)
(* order and json.dumps writes it back in that order).  A meta dict is a   *)
(* function from its keys to values (dict equality ignores order).         *)
(* An Optional value is <<>> for None and <<x>> for x.                     *)
(***************************************************************************)
EXTENDS Integers, Sequences, FiniteSets, TLC

\* ---------------------------------------------------------------- bounds
MaxSources == 2
MaxResults == 3

\* ---------------------------------------------------------------- values
Str(s) == [t |-> "str", v |-> s]
Num(n) == [t |-> "num", v |-> n]
Null == [t |-> "null", v |-> "null"]
Map(pairs) == [t |-> "map", v |-> pairs]

None == <<>>
Some(x) == <<x>>

Raise == [raised |-> TRUE, value |-> Null]
Ok(x) == [raised |-> FALSE, value |-> x]

EmptyMeta == [k \in {} |-> Null]

Keys(pairs) == {pairs[n][1] : n \in 1..Len(pairs)}
HasKey(pairs, key) == key \in Keys(pairs)
Lookup(pairs, key) == pairs[CHOOSE n \in 1..Len(pairs) : pairs[n][1] = key][2]

\* ------------------------------------------------------------ input sets
\* A source is described by what run() can observe of it: whether its bytes
\* can be read ("unreadable"), whether they are JSON ("malformed"), the meta
\* of its ByteStream, and what the compiled jq_schema yields on the parsed
\* data: the items, followed by an evaluation error when qerr.
Source(kind, bmeta, items, qerr) ==
  [kind |-> kind, meta |-> bmeta, items |-> items, qerr |-> qerr]

\* JSON values a query can yield
Items ==
  { Str("physics"),
    Num(1),
    Null,
    Map(<<>>),
    Map(<< <<"id", Num(1)>> >>),
    Map(<< <<"text", Str("hi")>>, <<"a", Num(4)>>, <<"c", Num(5)>> >>),
    Map(<< <<"text", Map(<< <<"id", Num(1)>> >>)>> >>) }

\* the two items the multi-source calls are built from
BatchItems ==
  { Str("physics"),
    Map(<< <<"text", Str("hi")>>, <<"a", Num(4)>>, <<"c", Num(5)>> >>) }

PathMeta == [k \in {"file_path"} |-> Str("prize.json")]
ByteMetas == {PathMeta, [k \in {"a"} |-> Num(1)]}

BatchSources ==
  {Source("ok", PathMeta, items, qerr) :
     items \in UNION {[1..n -> BatchItems] : n \in 0..MaxResults},
     qerr \in BOOLEAN}
    \cup {Source(kind, EmptyMeta, <<>>, FALSE) :
            kind \in {"unreadable", "malformed"}}

RECURSIVE TotalResults(_)
TotalResults(srcs) ==
  IF srcs = <<>> THEN 0 ELSE Len(Head(srcs).items) + TotalResults(Tail(srcs))

\* calls over several sources, with at most MaxResults query results in all
BatchSourceLists ==
  {srcs \in UNION {[1..n -> BatchSources] : n \in 0..MaxSources} :
     TotalResults(srcs) <= MaxResults}

\* calls over one source holding one item
SingleSourceLists ==
  {<<Source("ok", bmeta, <<item>>, qerr)>> :
     bmeta \in ByteMetas, item \in Items, qerr \in BOOLEAN}
    \cup {<<Source(kind, EmptyMeta, <<>>, FALSE)>> :
            kind \in {"unreadable", "malformed"}}

\* the meta argument: absent, one dict, or a list with one dict per position
CallerMeta == [k \in {"a", "b"} |-> IF k = "a" THEN Num(2) ELSE Num(3)]
PositionMeta(n) == [k \in {"b"} |-> Str("m" \o ToString(n))]
MetaArgs ==
  {[t |-> "none", v |-> <<>>], [t |-> "dict", v |-> <<CallerMeta>>]}
    \cup {[t |-> "list", v |-> [n \in 1..len |-> PositionMeta(n)]] :
            len \in 0..(MaxSources + 1)}

\* constructor arguments (content_key, is_content_key_jq_parsable,
\* additional_meta_fields)
ContentKeys == {None, Some("text"), Some(".text")}
MetaFields == {None, Some(<<>>), Some(<<"id", "name">>), Some(<<"a", "c">>)}
Config(content_key, is_content_key_jq_parsable, additional_meta_fields) ==
  [_content_key |-> content_key,
   _is_content_key_jq_parsable |-> is_content_key_jq_parsable,
   _additional_meta |-> additional_meta_fields]
Configs ==
  {Config(k, q, f) : k \in ContentKeys, q \in BOOLEAN, f \in MetaFields}

\* the components the multi-source calls are run on: the default one, and
\* one for each way the conversion of a BatchItems string can fail
BatchConfigs ==
  { Config(None, FALSE, None),
    Config(Some("text"), FALSE, None),
    Config(Some(".text"), TRUE, None),
    Config(None, FALSE, Some(<<"a", "c">>)) }

\* ---------------------------------------------------------------- state
VARIABLES
  self,            \* the component's fields, set by __init__
  sources,         \* argument of run
  meta,            \* argument of run
  pc,              \* position in run
  meta_list,       \* local of run
  i,               \* 1-based position of the for loop over zip(...)
  bytestream,      \* local of run: Optional ByteStream
  json_data,       \* local of run: Optional parsed data
  jq_result,       \* local of run: Optional iterator over the query results
  additional_meta, \* local of run: Optional dict
  documents,       \* local of run, returned
  log,             \* warnings written to the logger
  origin           \* history: origin[n] = source and item position of documents[n]

vars ==
  <<self, sources, meta, pc, meta_list, i, bytestream, json_data, jq_result,
    additional_meta, documents, log, origin>>

\* ------------------------------------------------------ pure functions
\* str(x) for the values that are neither str, dict nor None
PyStr(x) == IF x.t = "num" THEN ToString(x.v) ELSE "?"

RECURSIVE json_dumps(_)
RECURSIVE DumpPairs(_, _)
DumpPairs(pairs, n) ==
  IF n > Len(pairs) THEN ""
  ELSE (IF n > 1 THEN ", " ELSE "")
         \o "\"" \o pairs[n][1] \o "\": " \o json_dumps(pairs[n][2])
         \o DumpPairs(pairs, n + 1)

\* json.dumps with default separators; the strings of the input sets need
\* no escaping
json_dumps(x) ==
  CASE x.t = "str" -> "\"" \o x.v \o "\""
    [] x.t = "num" -> ToString(x.v)
    [] x.t = "null" -> "null"
    [] x.t = "map" -> "{" \o DumpPairs(x.v, 1) \o "}"

\* item[key]
Subscript(item, key) ==
  IF item.t = "map" /\ HasKey(item.v, key) THEN Ok(Lookup(item.v, key))
  ELSE Raise

\* jq.compile(expr).input(item).first() for the path programs ".key":
\* anything else here does not compile; a path yields the member or null on
\* an object, null on null, and an error on every other value.
JqKeys == {"text", "id", "a", "c"}
JqFirst(expr, item) ==
  IF ~ \E k \in JqKeys : expr = "." \o k THEN Raise
  ELSE LET key == CHOOSE k \in JqKeys : expr = "." \o k IN
       CASE item.t = "map" ->
              IF HasKey(item.v, key) THEN Ok(Lookup(item.v, key)) ELSE Ok(Null)
         [] item.t = "null" -> Ok(Null)
         [] OTHER -> Raise

\* _get_content, lines 126-133: the value the content is made from
ResolveContent(cfg, item) ==
  IF cfg._content_key # None
    THEN IF cfg._is_content_key_jq_parsable
           THEN JqFirst(cfg._content_key[1], item)
           ELSE Subscript(item, cfg._content_key[1])
    ELSE Ok(item)

\* variant: a mapping is serialized whether it is empty or not
CoerceContentDumpsEmpty(content) ==
  IF content.t = "str" THEN content
  ELSE IF content.t = "map" THEN Str(json_dumps(content))
       ELSE IF content.t # "null" THEN Str(PyStr(content)) ELSE Str("")

\* _get_content, lines 135-140
CoerceContent(content) ==
  IF content.t = "str" THEN content
  ELSE IF content.t = "map"
         THEN IF content.v # <<>> THEN Str(json_dumps(content)) ELSE Str("")
         ELSE IF content.t # "null" THEN Str(PyStr(content)) ELSE Str("")

_get_content(cfg, item) ==
  LET content == ResolveContent(cfg, item) IN
  IF content.raised THEN Raise ELSE Ok(CoerceContent(content.value))

\* record.get(field)
DictGet(record, field) ==
  IF HasKey(record.v, field) THEN Lookup(record.v, field) ELSE Null

\* variant: a field the record lacks is left out
AdditionalMetadataPresentOnly(cfg, record) ==
  IF cfg._additional_meta = None \/ cfg._additional_meta[1] = <<>>
    THEN Ok(EmptyMeta)
    ELSE IF record.t # "map" THEN Raise
    ELSE LET fields == cfg._additional_meta[1] IN
         Ok([field \in {fields[n] : n \in 1..Len(fields)} \cap Keys(record.v)
               |-> DictGet(record, field)])

_get_additional_metadata(cfg, record) ==
  IF cfg._additional_meta = None \/ cfg._additional_meta[1] = <<>>
    THEN Ok(EmptyMeta)
    ELSE IF record.t # "map" THEN Raise
    ELSE LET fields == cfg._additional_meta[1] IN
         Ok([field \in {fields[n] : n \in 1..Len(fields)} |->
               DictGet(record, field)])

\* {**x, **y}
Update(x, y) ==
  [k \in DOMAIN x \cup DOMAIN y |-> IF k \in DOMAIN y THEN y[k] ELSE x[k]]

\* variant: the caller's meta is merged last
MergedMetaCallerLast(bytestream_meta, metadata, additional) ==
  Update(Update(bytestream_meta, additional), metadata)

\* variant: a positional field is merged after the three layers
MergedMetaWithPosition(bytestream_meta, metadata, additional) ==
  Update(Update(Update(bytestream_meta, metadata), additional),
         [k \in {"seq"} |-> Num(0)])

\* {**bytestream.meta, **metadata, **additional_meta}
MergedMeta(bytestream_meta, metadata, additional) ==
  Update(Update(bytestream_meta, metadata), additional)

Document(content, merged_meta) == [content |-> content, meta |-> merged_meta]

\* haystack.components.converters.utils.normalize_metadata
normalize_metadata(m, sources_count) ==
  CASE m.t = "none" -> Ok([n \in 1..sources_count |-> EmptyMeta])
    [] m.t = "dict" -> Ok([n \in 1..sources_count |-> m.v[1]])
    [] m.t = "list" -> IF Len(m.v) # sources_count THEN Raise ELSE Ok(m.v)

\* haystack.components.converters.utils.get_bytestream_from_source
get_bytestream_from_source(source) ==
  IF source.kind = "unreadable" THEN Raise
  ELSE Ok([data |-> [valid |-> source.kind = "ok", items |-> source.items,
                     qerr |-> source.qerr],
           meta |-> source.meta])

\* json.loads(bytestream.data)
json_loads(data) ==
  IF data.valid THEN Ok([items |-> data.items, qerr |-> data.qerr]) ELSE Raise

\* zip(sources, meta_list) stops at the shorter argument
ZipLen(xs, ys) == IF Len(xs) < Len(ys) THEN Len(xs) ELSE Len(ys)

\* variant: every source is paired with the first dict
ZipPairFirstMeta(xs, ys, n) == <<xs[n], ys[1]>>

\* the n-th pair of zip(sources, meta_list)
ZipPair(xs, ys, n) == <<xs[n], ys[n]>>

\* variant: documents.insert(0, d)
PrependDocument(docs, d) == <<d>> \o docs

\* documents.append(d)
AppendDocument(docs, d) == Append(docs, d)

Warning(msg, n) == [msg |-> msg, source |-> n]

\* ---------------------------------------------------------------- actions
InitLocals ==
  /\ sources = <<>>
  /\ meta = [t |-> "none", v |-> <<>>]
  /\ pc = "idle"
  /\ meta_list = <<>>
  /\ i = 0
  /\ bytestream = None
  /\ json_data = None
  /\ jq_result = None
  /\ additional_meta = None
  /\ documents = <<>>
  /\ log = <<>>
  /\ origin = <<>>

\* variant: a meta list is zipped with the sources as it is
RunCallUncheckedOn(lists) ==
  /\ pc = "idle"
  /\ \E srcs \in lists, m \in MetaArgs :
       /\ sources' = srcs
       /\ meta' = m
       /\ documents' = <<>>
       /\ pc' = "loop"
       /\ meta_list' = IF m.t = "list" THEN m.v
                       ELSE normalize_metadata(m, Len(srcs)).value
  /\ UNCHANGED <<self, i, bytestream, json_data, jq_result, additional_meta,
                 log, origin>>

\* run(sources, meta), lines 90-91
RunCallOn(lists) ==
  /\ pc = "idle"
  /\ \E srcs \in lists, m \in MetaArgs :
       LET normalized == normalize_metadata(m, Len(srcs)) IN
       /\ sources' = srcs
       /\ meta' = m
       /\ documents' = <<>>
       /\ IF normalized.raised
            THEN pc' = "raised" /\ meta_list' = <<>>
            ELSE pc' = "loop" /\ meta_list' = normalized.value
  /\ UNCHANGED <<self, i, bytestream, json_data, jq_result, additional_meta,
                 log, origin>>

RunCall == RunCallOn(BatchSourceLists)

RunCallSingle == RunCallOn(SingleSourceLists)

\* line 93: the next pair of zip(sources, meta_list)
NextSource ==
  /\ pc = "loop"
  /\ i < ZipLen(sources, meta_list)
  /\ i' = i + 1
  /\ pc' = "read"
  /\ UNCHANGED <<self, sources, meta, meta_list, bytestream, json_data,
                 jq_result, additional_meta, documents, log, origin>>

\* line 122: the loop is exhausted
Return ==
  /\ pc = "loop"
  /\ i >= ZipLen(sources, meta_list)
  /\ pc' = "returned"
  /\ UNCHANGED <<self, sources, meta, meta_list, i, bytestream, json_data,
                 jq_result, additional_meta, documents, log, origin>>

\* variant: logger.warning(...); break
SkipSourceBreak(msg) ==
  /\ log' = Append(log, Warning(msg, i))
  /\ pc' = "returned"

\* lines 97-98 and 102-105: logger.warning(...); continue
SkipSource(msg) ==
  /\ log' = Append(log, Warning(msg, i))
  /\ pc' = "loop"

\* lines 94-98
ReadSource ==
  /\ pc = "read"
  /\ LET source == ZipPair(sources, meta_list, i)[1]
         r == get_bytestream_from_source(source)
     IN
     IF r.raised
       THEN SkipSource("Could not read") /\ UNCHANGED bytestream
       ELSE /\ bytestream' = Some(r.value)
            /\ pc' = "parse"
            /\ UNCHANGED log
  /\ UNCHANGED <<self, sources, meta, meta_list, i, json_data, jq_result,
                 additional_meta, documents, origin>>

\* lines 99-105
ParseSource ==
  /\ pc = "parse"
  /\ LET r == json_loads(bytestream[1].data) IN
     IF r.raised
       THEN SkipSource("Could not deserialize") /\ UNCHANGED json_data
       ELSE /\ json_data' = Some(r.value)
            /\ pc' = "query"
            /\ UNCHANGED log
  /\ UNCHANGED <<self, sources, meta, meta_list, i, bytestream, jq_result,
                 additional_meta, documents, origin>>

\* line 107: the query is evaluated lazily, nothing is computed yet
QueryInput ==
  /\ pc = "query"
  /\ jq_result' = Some([items |-> json_data[1].items,
                        qerr |-> json_data[1].qerr, next |-> 1])
  /\ pc' = "iter"
  /\ UNCHANGED <<self, sources, meta, meta_list, i, bytestream, json_data,
                 additional_meta, documents, log, origin>>

\* variant: the handler also removes the Documents of the failed source
ConvertFailedRollback ==
  LET kept == {n \in 1..Len(origin) : origin[n].src # i} IN
  /\ log' = Append(log, Warning("Could not convert", i))
  /\ pc' = "loop"
  /\ documents' = SubSeq(documents, 1, Cardinality(kept))
  /\ origin' = SubSeq(origin, 1, Cardinality(kept))

\* variant: the handler logs and raises again
ConvertFailedReraise ==
  /\ log' = Append(log, Warning("Could not convert", i))
  /\ pc' = "raised"
  /\ documents' = documents
  /\ origin' = origin

\* lines 114-120: the handler of the try block around the whole for loop of
\* lines 108-112; the Documents appended so far stay in the list
ConvertFailed ==
  /\ log' = Append(log, Warning("Could not convert", i))
  /\ pc' = "loop"
  /\ documents' = documents
  /\ origin' = origin

\* lines 108-112 for one result of the iterator
ConvertItem ==
  /\ pc = "iter"
  /\ jq_result[1].next <= Len(jq_result[1].items)
  /\ LET result == jq_result[1].items[jq_result[1].next]
         metadata == ZipPair(sources, meta_list, i)[2]
         content == _get_content(self, result)
         additional == _get_additional_metadata(self, result)
     IN
     IF content.raised \/ additional.raised
       THEN ConvertFailed /\ UNCHANGED <<jq_result, additional_meta>>
       ELSE /\ additional_meta' = Some(additional.value)
            /\ documents' =
                 AppendDocument(documents,
                                Document(content.value,
                                         MergedMeta(bytestream[1].meta,
                                                    metadata,
                                                    additional.value)))
            /\ origin' = AppendDocument(origin,
                                        [src |-> i, idx |-> jq_result[1].next])
            /\ jq_result' =
                 Some([jq_result[1] EXCEPT !.next = jq_result[1].next + 1])
            /\ UNCHANGED <<pc, log>>
  /\ UNCHANGED <<self, sources, meta, meta_list, i, bytestream, json_data>>

\* line 108: the iterator is exhausted, the loop and the try block end
QueryExhausted ==
  /\ pc = "iter"
  /\ jq_result[1].next > Len(jq_result[1].items)
  /\ ~ jq_result[1].qerr
  /\ pc' = "loop"
  /\ UNCHANGED <<self, sources, meta, meta_list, i, bytestream, json_data,
                 jq_result, additional_meta, documents, log, origin>>

\* line 108: the iterator raises the query's evaluation error
QueryRaises ==
  /\ pc = "iter"
  /\ jq_result[1].next > Len(jq_result[1].items)
  /\ jq_result[1].qerr
  /\ ConvertFailed
  /\ UNCHANGED <<self, sources, meta, meta_list, i, bytestream, json_data,
                 jq_result, additional_meta>>

Step ==
  \/ NextSource
  \/ Return
  \/ ReadSource
  \/ ParseSource
  \/ QueryInput
  \/ ConvertItem
  \/ QueryExhausted
  \/ QueryRaises

\* one call of run on several sources
Init == self \in BatchConfigs /\ InitLocals
Next == RunCall \/ Step
Spec == Init /\ [][Next]_vars

\* one call of run on one source holding one item, for every component
InitSingle == self \in Configs /\ InitLocals
NextSingle == RunCallSingle \/ Step
SpecSingle == InitSingle /\ [][NextSingle]_vars

TypeOK ==
  /\ pc \in {"idle", "raised", "loop", "read", "parse", "query", "iter",
              "returned"}
  /\ Len(documents) = Len(origin)

\* ------------------------------------------------------------ properties
Failing(s) == sources[s].kind # "ok"
ItemAt(s, j) == sources[s].items[j]
DocAt(s, j) == \E n \in 1..Len(origin) : origin[n] = [src |-> s, idx |-> j]

\* the Documents of the output that come from the source at position s
DocsOf(s) ==
  LET at(n) == [doc |-> documents[n], from |-> origin[n].src]
      picked == SelectSeq([n \in 1..Len(documents) |-> at(n)],
                          LAMBDA e : e.from = s)
  IN [n \in 1..Len(picked) |-> picked[n].doc]

\* the resolution of an item raises
ItemRaises(item) ==
  _get_content(self, item).raised \/ _get_additional_metadata(self, item).raised

\* position of the first item of source s whose resolution raises, or one
\* past the last item
FirstRaising(s) ==
  LET bad == {j \in 1..Len(sources[s].items) : ItemRaises(ItemAt(s, j))} IN
  IF bad = {} THEN Len(sources[s].items) + 1
  ELSE CHOOSE j \in bad : \A k \in bad : j <= k

RECURSIVE Sum(_, _)
Sum(f, n) == IF n = 0 THEN 0 ELSE f[n] + Sum(f, n - 1)

\* the dict the caller passed for the source at position s
CallerMetaAt(s) ==
  CASE meta.t = "none" -> EmptyMeta
    [] meta.t = "dict" -> meta.v[1]
    [] meta.t = "list" -> meta.v[s]

\* the names in additional_meta_fields
FieldNames ==
  IF self._additional_meta = None THEN {}
  ELSE {self._additional_meta[1][n] : n \in 1..Len(self._additional_meta[1])}

\* what the source at position s yields when it is converted on its own
Standalone(s) ==
  [j \in 1..(FirstRaising(s) - 1) |->
     Document(_get_content(self, ItemAt(s, j)).value,
              MergedMeta(sources[s].meta, CallerMetaAt(s),
                         _get_additional_metadata(self, ItemAt(s, j)).value))]

\* C1 as stated: when the call has returned, every matched item of a parsed
\* source whose resolution does not raise has a Document, and the number of
\* Documents is the number of matched items minus those whose resolution
\* raised.
C1_OnlyFailingItemDropped ==
  pc = "returned" =>
    /\ \A s \in 1..Len(sources) : \A j \in 1..Len(sources[s].items) :
         ~ ItemRaises(ItemAt(s, j)) => DocAt(s, j)
    /\ Len(documents) =
         Sum([s \in 1..Len(sources) |->
                Cardinality({j \in 1..Len(sources[s].items) :
                               ~ ItemRaises(ItemAt(s, j))})],
             Len(sources))

\* C1 amended: when the call has returned, a matched item of a parsed source
\* has a Document exactly when no item up to and including it raised during
\* resolution, whatever happened in the other sources; the number of
\* Documents is the sum over the sources of the number of items before the
\* first raising one.
C1_ItemsFromFirstFailureDropped ==
  pc = "returned" =>
    /\ \A s \in 1..Len(sources) : \A j \in 1..Len(sources[s].items) :
         DocAt(s, j) <=> j < FirstRaising(s)
    /\ Len(documents) =
         Sum([s \in 1..Len(sources) |-> FirstRaising(s) - 1], Len(sources))

C1_Witness ==
  /\ pc = "returned"
  /\ \E s \in 1..Len(sources) :
       /\ FirstRaising(s) < Len(sources[s].items)
       /\ ~ ItemRaises(ItemAt(s, FirstRaising(s) + 1))
       /\ ~ DocAt(s, FirstRaising(s) + 1)
       /\ \E s2 \in (s + 1)..Len(sources) : DocAt(s2, 1)

\* C2: a source whose bytes cannot be read or are not JSON contributes no
\* Document and a warning, the call raises only before the loop starts, and
\* every other source contributes what it yields on its own.
C2_FailingSourceSkipped ==
  /\ pc = "raised" => i = 0 /\ log = <<>>
  /\ pc = "returned" =>
       \A s \in 1..Len(sources) :
         IF Failing(s)
           THEN /\ DocsOf(s) = <<>>
                /\ \E n \in 1..Len(log) :
                     /\ log[n].source = s
                     /\ log[n].msg = IF sources[s].kind = "unreadable"
                                       THEN "Could not read"
                                       ELSE "Could not deserialize"
           ELSE DocsOf(s) = Standalone(s)

C2_Witness ==
  /\ pc = "returned"
  /\ Len(sources) = 2
  /\ sources[1].kind = "unreadable"
  /\ ~ Failing(2)
  /\ Len(DocsOf(2)) = 2

\* C3: a meta list whose length differs from the number of sources makes
\* the call raise before any source is read, parsed or queried and before
\* any Document or warning is produced.
C3_MetaLengthMismatchIsFatal ==
  (pc # "idle" /\ meta.t = "list" /\ Len(meta.v) # Len(sources)) =>
    /\ pc = "raised"
    /\ i = 0
    /\ bytestream = None /\ json_data = None /\ jq_result = None
    /\ documents = <<>>
    /\ log = <<>>

C3_Witness ==
  /\ pc = "raised"
  /\ meta.t = "list" /\ Len(meta.v) = 3
  /\ Len(sources) = 2
  /\ \A s \in 1..2 : ~ Failing(s) /\ FirstRaising(s) > 1

\* C4: the meta of every Document has the keys of the byte source's meta,
\* of the caller's meta for its source and of the resolved fields, and each
\* key holds the value of the last of these three that contains it.
C4_MergePrecedence ==
  \A n \in 1..Len(documents) :
    LET s == origin[n].src
        b == sources[s].meta
        c == CallerMetaAt(s)
        r == _get_additional_metadata(self, ItemAt(s, origin[n].idx)).value
        m == documents[n].meta
    IN /\ DOMAIN m = DOMAIN b \cup DOMAIN c \cup DOMAIN r
       /\ \A k \in DOMAIN m :
            m[k] = IF k \in DOMAIN r THEN r[k]
                   ELSE IF k \in DOMAIN c THEN c[k] ELSE b[k]

\* byte-source {a:1}, caller {a:2,b:3}, resolved {a:4,c:5} give {a:4,b:3,c:5}
C4_Witness ==
  /\ Len(documents) = 1
  /\ sources[1].meta = [k \in {"a"} |-> Num(1)]
  /\ meta = [t |-> "dict", v |-> <<CallerMeta>>]
  /\ additional_meta =
       Some([k \in {"a", "c"} |-> IF k = "a" THEN Num(4) ELSE Num(5)])
  /\ documents[1].meta =
       [k \in {"a", "b", "c"} |->
          CASE k = "a" -> Num(4) [] k = "b" -> Num(3) [] k = "c" -> Num(5)]

\* C5: the Documents are ordered by source position and then by the position
\* of their item among the query results, and the k-th Document of a source
\* is the one made from its k-th query result.
C5_OutputOrder ==
  /\ \A n \in 1..(Len(origin) - 1) :
       \/ origin[n].src < origin[n + 1].src
       \/ origin[n].src = origin[n + 1].src /\ origin[n].idx < origin[n + 1].idx
  /\ \A n \in 1..Len(origin) :
       LET s == origin[n].src
           k == Cardinality({m \in 1..n : origin[m].src = s})
       IN /\ origin[n].idx = k
          /\ documents[n].content = _get_content(self, ItemAt(s, k)).value

C5_Witness ==
  /\ pc = "returned"
  /\ Len(documents) = 3
  /\ origin[1] = [src |-> 1, idx |-> 1]
  /\ origin[2] = [src |-> 1, idx |-> 2]
  /\ origin[3] = [src |-> 2, idx |-> 1]
  /\ documents[1].content # documents[2].content

\* C6 as stated: the meta of every Document holds the zero-based position of
\* its item among the query results of its source.
C6_SequenceNumberInjected ==
  \A n \in 1..Len(documents) :
    \E k \in DOMAIN documents[n].meta :
      documents[n].meta[k] = Num(origin[n].idx - 1)

\* C6 amended: no positional field is injected; the meta of a Document has
\* no key besides those of the byte source's meta, of the caller's meta for
\* its source and of additional_meta_fields, and each value is one the
\* byte source, the caller or the item supplies for that key.
C6_NoInjectedField ==
  \A n \in 1..Len(documents) :
    LET s == origin[n].src
        item == ItemAt(s, origin[n].idx)
        m == documents[n].meta
    IN \A k \in DOMAIN m :
         \/ k \in DOMAIN sources[s].meta /\ m[k] = sources[s].meta[k]
         \/ k \in DOMAIN CallerMetaAt(s) /\ m[k] = CallerMetaAt(s)[k]
         \/ k \in FieldNames /\ m[k] = DictGet(item, k)

\* two Documents of one source whose meta does not tell them apart
C6_Witness ==
  /\ pc = "returned"
  /\ \E n \in 2..Len(documents) :
       /\ origin[n].src = origin[n - 1].src
       /\ origin[n].idx = 2
       /\ documents[n].meta = documents[n - 1].meta

\* C7: the content of every Document is a string made from the resolved
\* value: the value itself when it is a string, its JSON serialization when
\* it is a non-empty mapping, the empty string when it is an empty mapping
\* or null, and its string representation otherwise.
C7_ContentCoercion ==
  \A n \in 1..Len(documents) :
    LET r == ResolveContent(self, ItemAt(origin[n].src, origin[n].idx)).value
        c == documents[n].content
    IN /\ c.t = "str"
       /\ r.t = "str" => c = r
       /\ r.t = "map" /\ r.v # <<>> => c.v = json_dumps(r)
       /\ r.t = "map" /\ r.v = <<>> => c.v = ""
       /\ r.t = "null" => c.v = ""
       /\ r.t = "num" => c.v = ToString(r.v)

\* content_key "text" on {"text": {"id": 1}} gives the serialized mapping
C7_Witness ==
  /\ Len(documents) = 1
  /\ self._content_key = Some("text")
  /\ ~ self._is_content_key_jq_parsable
  /\ ItemAt(1, 1) = Map(<< <<"text", Map(<< <<"id", Num(1)>> >>)>> >>)
  /\ documents[1].content = Str("{\"id\": 1}")

\* C8: once an item has been converted, the resolved mapping is empty when
\* additional_meta_fields is unset or empty; otherwise its keys are exactly
\* the configured names, each holding the item's value for it, or null when
\* the item lacks it.
C8_PlainFieldResolution ==
  additional_meta # None =>
    LET last == origin[Len(origin)]
        item == ItemAt(last.src, last.idx)
        resolved == additional_meta[1]
    IN IF self._additional_meta = None \/ self._additional_meta[1] = <<>>
         THEN resolved = EmptyMeta
         ELSE /\ item.t = "map"
              /\ DOMAIN resolved = FieldNames
              /\ \A f \in FieldNames :
                   resolved[f] = IF f \in Keys(item.v) THEN Lookup(item.v, f)
                                 ELSE Null

\* fields [id, name] on item {id: 1} give {id: 1, name: null}
C8_Witness ==
  /\ self._additional_meta = Some(<<"id", "name">>)
  /\ Len(documents) = 1
  /\ ItemAt(1, 1) = Map(<< <<"id", Num(1)>> >>)
  /\ additional_meta =
       Some([k \in {"id", "name"} |-> IF k = "id" THEN Num(1) ELSE Null])

\* C9: every entry of the dict the caller passed for a source (the single
\* dict, or the list element at the source's position) is in the meta of
\* every Document of that source unless a resolved field has the same name.
C9_CallerMetaPairedByPosition ==
  \A n \in 1..Len(documents) :
    LET c == CallerMetaAt(origin[n].src) IN
    \A k \in DOMAIN c \ FieldNames :
      k \in DOMAIN documents[n].meta /\ documents[n].meta[k] = c[k]

\* the first source is skipped and the second gets the second dict
C9_Witness ==
  /\ pc = "returned"
  /\ meta.t = "list"
  /\ Len(sources) = 2
  /\ Failing(1)
  /\ Len(DocsOf(2)) > 0
  /\ \A n \in 1..Len(documents) : documents[n].meta["b"] = PositionMeta(2)["b"]

\* the resolution of the next item, or the query itself, raises now
ConvertRaises ==
  /\ pc = "iter"
  /\ IF jq_result[1].next <= Len(jq_result[1].items)
       THEN ItemRaises(jq_result[1].items[jq_result[1].next])
       ELSE jq_result[1].qerr

\* C10: every step leaves the Documents appended so far in place and appends
\* at most the Document of the next item of the current source; a step in
\* which the query or the resolution of the item at position p raises leaves
\* exactly the Documents of the items before p for that source, does not
\* raise out of run, and goes on to the next source.
C10_AppendedDocumentsStay ==
  [][ /\ SubSeq(documents', 1, Len(documents)) = documents
      /\ Len(documents') > Len(documents) =>
           /\ Len(documents') = Len(documents) + 1
           /\ pc = "iter"
           /\ origin'[Len(origin')] = [src |-> i, idx |-> jq_result[1].next]
      /\ i' >= i
      /\ ConvertRaises =>
           /\ pc' = "loop" /\ i' = i
           /\ documents' = documents
           /\ {origin'[n].idx : n \in {m \in 1..Len(origin') : origin'[m].src = i}}
                = 1..(jq_result[1].next - 1)
    ]_vars

C10_Witness ==
  /\ pc = "returned"
  /\ Len(sources) = 2
  /\ ~ Failing(1)
  /\ Len(sources[1].items) = 2
  /\ FirstRaising(1) = 2
  /\ Len(DocsOf(1)) = 1
  /\ Len(DocsOf(2)) = 1
====
